---- MODULE Spec2Model ----
(***************************************************************************)
(* marrow.mailer.manager.dynamic: the DynamicManager, its                  *)
(* ScalingPoolExecutor, the worker threads (thread_worker) and the work    *)
(* items they run (WorkItem.run).                                          *)
(*                                                                         *)
(* Threads of control: one client issuing submit calls (submit holds       *)
(* _shutdown_lock from entry to return, so concurrent submits serialise),  *)
(* one caller of shutdown, one client cancelling futures, and the worker   *)
(* threads.  Time is not modelled: a bounded queue wait may expire         *)
(* whenever the queue is empty, and a thread may be delayed arbitrarily    *)
(* between two of its statements.                                          *)
(***************************************************************************)
EXTENDS Integers, Sequences, FiniteSets, TLC

\* ---- bounds of the model -------------------------------------------------
MaxItems == 2          \* submit calls that are accepted
MaxThreadIds == 2      \* Thread objects in existence at a time
MaxShutdownCalls == 2  \* calls of ScalingPoolExecutor.shutdown

\* ---- configurations explored ----------------------------------------------
WorkersCfg == {1, 2}   \* values of config 'workers'
DivisorCfg == {1, 2}   \* values of config 'divisor'
TimeoutCfg == {0, 1}   \* integral values of config 'timeout'

Items == 1..MaxItems
ThreadIds == 1..MaxThreadIds

\* The queue's sentinel: the None that shutdown() puts.
Sentinel == 0

VARIABLES
    executor,      \* manager.executor is set (FALSE: it is None)
    transport,     \* manager.transport: "new", "running" or "stopped"
    max_workers,   \* executor._max_workers         (configuration)
    divisor,       \* executor.divisor              (configuration)
    timeout,       \* executor.timeout, whole part  (configuration)
    fractional,    \* executor.timeout is a float with a fractional part
    work_queue,    \* executor._work_queue: FIFO of items and sentinels
    threads,       \* executor._threads
    shutdown,      \* executor._shutdown
    state,         \* future._state of each item's future ("NONE": not created)
    outcome,       \* what the future carries: "none", "result", "exception"
    fn,            \* what the wrapped callable does: "returns" or "raises"
    wpc,           \* each worker thread's position in thread_worker
    i,             \* thread_worker's local i
    work,          \* thread_worker's local work (0: none)
    spc,           \* the submitting thread's position in submit
    pool,          \* _adjust_thread_count's local pool
    tospawn,       \* _adjust_thread_count's local tospawn (loop remainder)
    t,             \* _spawn's local t (0: none)
    raised,        \* the last deliver/submit call raised
    management_lock, \* executor._management_lock is held (by _spawn)
    sdpc,          \* the shutdown caller's position
    sdwait,        \* the wait argument of the current/last shutdown call
    joining,       \* list(self._threads) not yet joined
    sdcalls,       \* shutdown calls made so far
    dequeued,      \* history: how often each item was handed out by get()
    invoked,       \* history: how often each item's callable was invoked
    consumed       \* history: sentinels each running worker has dequeued

cfgvars == <<max_workers, divisor, timeout, fractional>>
mgrvars == <<executor, transport>>
futvars == <<state, outcome, fn>>
wvars == <<wpc, i, work>>
subvars == <<spc, pool, tospawn, t, raised, management_lock>>
sdvars == <<sdpc, sdwait, joining, sdcalls>>
histvars == <<dequeued, invoked, consumed>>
vars == <<cfgvars, mgrvars, work_queue, threads, shutdown, futvars, wvars, subvars,
          sdvars, histvars>>

\* ---- helpers ---------------------------------------------------------------
Min(a, b) == IF a < b THEN a ELSE b

\* math.ceil(n / float(d)) for n >= 0, d >= 1
Ceil(n, d) == (n + d - 1) \div d

\* queue.qsize(): sentinels count as well
qsize == Len(work_queue)

Terminal(it) == state[it] \in {"CANCELLED", "CANCELLED_AND_NOTIFIED", "FINISHED"}
Accepted(it) == state[it] # "NONE"

\* the terminal state a future is in: "cancelled", "result", "exception",
\* or "none" while it is pending or running
TerminalKind(it) ==
    IF state[it] \in {"CANCELLED", "CANCELLED_AND_NOTIFIED"} THEN "cancelled"
    ELSE IF state[it] = "FINISHED" THEN outcome[it]
    ELSE "none"
NextItem == Cardinality({it \in Items : Accepted(it)}) + 1
Alive(w) == wpc[w] \notin {"new", "dead"}

Init ==
    /\ executor = FALSE
    /\ transport = "new"
    /\ max_workers \in WorkersCfg
    /\ divisor \in DivisorCfg
    /\ \/ fractional = FALSE /\ timeout \in TimeoutCfg
       \/ fractional = TRUE /\ timeout = 0
    /\ work_queue = <<>>
    /\ threads = {}
    /\ shutdown = FALSE
    /\ state = [it \in Items |-> "NONE"]
    /\ outcome = [it \in Items |-> "none"]
    /\ fn = [it \in Items |-> "returns"]
    /\ wpc = [w \in ThreadIds |-> "new"]
    /\ i = [w \in ThreadIds |-> 0]
    /\ work = [w \in ThreadIds |-> 0]
    /\ spc = "idle"
    /\ pool = 0
    /\ tospawn = 0
    /\ t = 0
    /\ raised = FALSE
    /\ management_lock = FALSE
    /\ sdpc = "idle"
    /\ sdwait = FALSE
    /\ joining = {}
    /\ sdcalls = 0
    /\ dequeued = [it \in Items |-> 0]
    /\ invoked = [it \in Items |-> 0]
    /\ consumed = [w \in ThreadIds |-> 0]


\* ---- the queue ---------------------------------------------------------------
\* a put at the head of the queue (LIFO), which queue.Queue does not do
PutFront(q, x) == <<x>> \o q

\* queue.put(x)
Put(q, x) == Append(q, x)

\* n times queue.put(None)
RECURSIVE PutSentinels(_, _)
PutSentinels(q, n) == IF n = 0 THEN q ELSE PutSentinels(Put(q, Sentinel), n - 1)

\* ---- thread_worker -----------------------------------------------------------
\* line 25, `while i:` on the value v of i.  A float with a fractional part
\* never becomes 0 by steps of 1: such an i is kept at its start value
\* (every later value behaves the same).
WhileI(v) == fractional \/ v # 0

\* lines 25-26 and 49-50: where the loop head takes the worker (the queue
\* wait, or out of the loop by exhaustion), and i after line 26
LoopPc(v) == IF WhileI(v) THEN "get" ELSE "exit"
\* a loop without line 26: i is never decremented
LoopINoDecrement(v) == v

LoopI(v) == IF WhileI(v) /\ ~fractional THEN v - 1 ELSE v

\* WorkerGet with a get() that hands out the head item without removing it
WorkerGetPeek(w) ==
    /\ wpc[w] = "get"
    /\ IF work_queue = <<>>
         THEN /\ wpc' = [wpc EXCEPT ![w] = "exit"]
              /\ UNCHANGED <<work_queue, work, dequeued, consumed, i>>
         ELSE IF Head(work_queue) = Sentinel
           THEN /\ work_queue' = Tail(work_queue)
                /\ wpc' = [wpc EXCEPT ![w] =
                             IF shutdown THEN "exit" ELSE LoopPc(i[w])]
                /\ i' = [i EXCEPT ![w] = IF shutdown THEN @ ELSE LoopI(@)]
                /\ consumed' = [consumed EXCEPT ![w] = @ + 1]
                /\ UNCHANGED <<work, dequeued>>
           ELSE /\ work_queue' = work_queue
                /\ work' = [work EXCEPT ![w] = Head(work_queue)]
                /\ dequeued' = [dequeued EXCEPT ![Head(work_queue)] = @ + 1]
                /\ wpc' = [wpc EXCEPT ![w] = "run"]
                /\ UNCHANGED <<i, consumed>>
    /\ UNCHANGED <<cfgvars, mgrvars, threads, shutdown, futvars, subvars, sdvars,
                   invoked>>

\* WorkerGet with a worker that hands a sentinel on to the other workers
\* (puts it back) and then goes on with its own loop instead of leaving it
WorkerGetRequeue(w) ==
    /\ wpc[w] = "get"
    /\ IF work_queue = <<>>
         THEN /\ wpc' = [wpc EXCEPT ![w] = "exit"]
              /\ UNCHANGED <<work_queue, work, dequeued, consumed, i>>
         ELSE IF Head(work_queue) = Sentinel
           THEN /\ work_queue' = Append(Tail(work_queue), Sentinel)
                /\ wpc' = [wpc EXCEPT ![w] = LoopPc(i[w])]
                /\ i' = [i EXCEPT ![w] = LoopI(@)]
                /\ UNCHANGED <<work, dequeued, consumed>>
           ELSE /\ work_queue' = Tail(work_queue)
                /\ work' = [work EXCEPT ![w] = Head(work_queue)]
                /\ dequeued' = [dequeued EXCEPT ![Head(work_queue)] = @ + 1]
                /\ wpc' = [wpc EXCEPT ![w] = "run"]
                /\ UNCHANGED <<i, consumed>>
    /\ UNCHANGED <<cfgvars, mgrvars, threads, shutdown, futvars, subvars, sdvars,
                   invoked>>

\* lines 29-44: jobs.get(True, timeout) and what the worker does with a
\* sentinel or with Empty.  The wait can only expire on an empty queue.
WorkerGet(w) ==
    /\ wpc[w] = "get"
    /\ IF work_queue = <<>>
         THEN \* Empty: death from starvation
              /\ wpc' = [wpc EXCEPT ![w] = "exit"]
              /\ UNCHANGED <<work_queue, work, dequeued, consumed, i>>
         ELSE /\ work_queue' = Tail(work_queue)
              /\ IF Head(work_queue) = Sentinel
                   THEN /\ wpc' = [wpc EXCEPT ![w] =
                                     IF shutdown THEN "exit" ELSE LoopPc(i[w])]
                        /\ i' = [i EXCEPT ![w] =
                                   IF shutdown THEN @ ELSE LoopI(@)]
                        /\ consumed' = [consumed EXCEPT ![w] = @ + 1]
                        /\ UNCHANGED <<work, dequeued>>
                   ELSE /\ work' = [work EXCEPT ![w] = Head(work_queue)]
                        /\ dequeued' = [dequeued EXCEPT ![Head(work_queue)] = @ + 1]
                        /\ wpc' = [wpc EXCEPT ![w] = "run"]
                        /\ UNCHANGED <<i, consumed>>
    /\ UNCHANGED <<cfgvars, mgrvars, threads, shutdown, futvars, subvars, sdvars,
                   invoked>>

\* ---- WorkItem.run ------------------------------------------------------------
\* RunStart with a run() that ignores what set_running_or_notify_cancel()
\* returns and calls fn all the same
RunStartIgnoresCancel(w) ==
    /\ wpc[w] = "run"
    /\ state' = [state EXCEPT ![work[w]] =
                   IF @ = "CANCELLED" THEN "CANCELLED_AND_NOTIFIED" ELSE "RUNNING"]
    /\ invoked' = [invoked EXCEPT ![work[w]] = @ + 1]
    /\ wpc' = [wpc EXCEPT ![w] = "call"]
    /\ UNCHANGED <<cfgvars, mgrvars, work_queue, threads, shutdown, outcome, fn, i,
                   work, subvars, sdvars, dequeued,
                   consumed>>

\* lines 70-74: future.set_running_or_notify_cancel(), then the call of fn;
\* on a cancelled future run() returns and the worker is back at line 25.
\* On a future that is neither pending nor cancelled it raises, which
\* escapes WorkItem.run and is caught by thread_worker's line 52.
RunStart(w) ==
    /\ wpc[w] = "run"
    /\ LET it == work[w] IN
       CASE state[it] = "CANCELLED" ->
              /\ state' = [state EXCEPT ![it] = "CANCELLED_AND_NOTIFIED"]
              /\ wpc' = [wpc EXCEPT ![w] = LoopPc(i[w])]
              /\ i' = [i EXCEPT ![w] = LoopI(@)]
              /\ work' = [work EXCEPT ![w] = 0]
              /\ UNCHANGED invoked
         [] state[it] = "PENDING" ->
              /\ state' = [state EXCEPT ![it] = "RUNNING"]
              /\ invoked' = [invoked EXCEPT ![it] = @ + 1]
              /\ wpc' = [wpc EXCEPT ![w] = "call"]
              /\ UNCHANGED <<work, i>>
         [] OTHER ->
              /\ wpc' = [wpc EXCEPT ![w] = "exit"]
              /\ work' = [work EXCEPT ![w] = 0]
              /\ UNCHANGED <<state, invoked, i>>
    /\ UNCHANGED <<cfgvars, mgrvars, work_queue, threads, shutdown, outcome, fn,
                   subvars, sdvars, dequeued, consumed>>

\* RunFinish with a run() that has no except clause: what fn raises escapes
\* to thread_worker's line 52 and ends the worker, the future left running
RunFinishPropagates(w) ==
    /\ wpc[w] = "call"
    /\ IF fn[work[w]] = "raises"
         THEN /\ wpc' = [wpc EXCEPT ![w] = "exit"]
              /\ UNCHANGED <<state, outcome, i>>
         ELSE /\ state' = [state EXCEPT ![work[w]] = "FINISHED"]
              /\ outcome' = [outcome EXCEPT ![work[w]] = "result"]
              /\ wpc' = [wpc EXCEPT ![w] = LoopPc(i[w])]
              /\ i' = [i EXCEPT ![w] = LoopI(@)]
    /\ work' = [work EXCEPT ![w] = 0]
    /\ UNCHANGED <<cfgvars, mgrvars, work_queue, threads, shutdown, fn, subvars,
                   sdvars, histvars>>

\* lines 74-81: fn returns or raises; set_result or set_exception; run()
\* returns and the worker is back at line 25
RunFinish(w) ==
    /\ wpc[w] = "call"
    /\ LET it == work[w] IN
         /\ state' = [state EXCEPT ![it] = "FINISHED"]
         /\ outcome' = [outcome EXCEPT ![it] =
                          IF fn[it] = "raises" THEN "exception" ELSE "result"]
    /\ wpc' = [wpc EXCEPT ![w] = LoopPc(i[w])]
    /\ i' = [i EXCEPT ![w] = LoopI(@)]
    /\ work' = [work EXCEPT ![w] = 0]
    /\ UNCHANGED <<cfgvars, mgrvars, work_queue, threads, shutdown, fn, subvars,
                   sdvars, histvars>>

\* lines 55-57: the worker removes itself from executor._threads and ends.
\* (The executor is never collected while the process lives: atexit holds
\* its bound method, line 92, so executor() is never None.)
WorkerExit(w) ==
    /\ wpc[w] = "exit"
    /\ threads' = threads \ {w}
    /\ wpc' = [wpc EXCEPT ![w] = "dead"]
    /\ i' = [i EXCEPT ![w] = 0]
    /\ consumed' = [consumed EXCEPT ![w] = 0]
    /\ UNCHANGED <<cfgvars, mgrvars, work_queue, shutdown, futvars, work,
                   subvars, sdvars, dequeued, invoked>>

\* ---- ScalingPoolExecutor ---------------------------------------------------
\* _optimum_workers without the cap at _max_workers
OptimumWorkersUncapped == Ceil(qsize, divisor)

\* _optimum_workers that leaves the item just enqueued out of the depth
OptimumWorkersBeforePut == Min(max_workers, Ceil(qsize - 1, divisor))

\* line 128
OptimumWorkers == Min(max_workers, Ceil(qsize, divisor))

\* Thread objects that may stand for a new Thread(): never started, or dead
\* and referenced by nobody.
FreeIds == {w \in ThreadIds : wpc[w] \in {"new", "dead"}
                              /\ w \notin threads /\ w \notin joining}

\* Most threads a submit that enqueues now can come to spawn.
SpawnNeed == Min(max_workers, Ceil(qsize + 1, divisor)) - Cardinality(threads)

\* ---- DynamicManager --------------------------------------------------------
\* lines 147-157: transport.startup(), then the executor is created
Startup ==
    /\ ~executor
    /\ transport = "new"
    /\ transport' = "running"
    /\ executor' = TRUE
    /\ UNCHANGED <<cfgvars, work_queue, threads, shutdown, futvars, wvars,
                   subvars, sdvars, histvars>>

\* line 163 before startup: self.executor is None, the attribute lookup
\* of submit raises and nothing else happens
DeliverUninitialized ==
    /\ ~executor
    /\ raised' = TRUE
    /\ UNCHANGED <<cfgvars, mgrvars, work_queue, threads, shutdown, futvars,
                   wvars, spc, pool, tospawn, t, management_lock, sdvars,
                   histvars>>

\* line 172: transport.shutdown(), once executor.shutdown() has returned
TransportShutdown ==
    /\ sdpc = "returned"
    /\ transport = "running"
    /\ transport' = "stopped"
    /\ UNCHANGED <<cfgvars, executor, work_queue, threads, shutdown, futvars,
                   wvars, subvars, sdvars, histvars>>

\* line 163, concurrent.futures.ThreadPoolExecutor.submit after shutdown:
\* raises.
SubmitRaise ==
    /\ executor
    /\ spc = "idle"
    /\ shutdown
    /\ raised' = TRUE
    /\ UNCHANGED <<cfgvars, mgrvars, work_queue, threads, shutdown, futvars,
                   wvars, spc, pool, tospawn, t, management_lock, sdvars,
                   histvars>>

\* SubmitAccept by a manager that takes deliver in any state (no test of
\* the executor or of its flag)
SubmitAcceptAnyState(b) ==
    /\ spc = "idle"
    /\ NextItem <= MaxItems
    /\ Cardinality(FreeIds) >= SpawnNeed
    /\ state' = [state EXCEPT ![NextItem] = "PENDING"]
    /\ fn' = [fn EXCEPT ![NextItem] = b]
    /\ work_queue' = Put(work_queue, NextItem)
    /\ spc' = "adjust"
    /\ raised' = FALSE
    /\ UNCHANGED <<cfgvars, mgrvars, threads, shutdown, outcome, wvars, pool,
                   tospawn, t, management_lock, sdvars, histvars>>

\* line 163, concurrent.futures.ThreadPoolExecutor.submit: takes
\* _shutdown_lock, creates the future and the work item, puts it; goes on
\* to _adjust_thread_count with the lock held.
SubmitAccept(b) ==
    /\ executor
    /\ spc = "idle"
    /\ ~shutdown
    /\ NextItem <= MaxItems
    /\ Cardinality(FreeIds) >= SpawnNeed
    /\ state' = [state EXCEPT ![NextItem] = "PENDING"]
    /\ fn' = [fn EXCEPT ![NextItem] = b]
    /\ work_queue' = Put(work_queue, NextItem)
    /\ spc' = "adjust"
    /\ raised' = FALSE
    /\ UNCHANGED <<cfgvars, mgrvars, threads, shutdown, outcome, wvars, pool,
                   tospawn, t, management_lock, sdvars, histvars>>

\* line 117
AdjustReadPool ==
    /\ spc = "adjust"
    /\ pool' = Cardinality(threads)
    /\ spc' = "test"
    /\ UNCHANGED <<cfgvars, mgrvars, work_queue, threads, shutdown, futvars,
                   wvars, tospawn, t, raised, management_lock, sdvars,
                   histvars>>

\* line 119; on a false test submit returns and releases _shutdown_lock
AdjustTest ==
    /\ spc = "test"
    /\ IF pool < OptimumWorkers
         THEN spc' = "count" /\ pool' = pool
         ELSE spc' = "idle" /\ pool' = 0
    /\ UNCHANGED <<cfgvars, mgrvars, work_queue, threads, shutdown, futvars,
                   wvars, tospawn, t, raised, management_lock, sdvars,
                   histvars>>

\* AdjustCount that spawns as many workers as the optimum says, whatever
\* the number it already has
AdjustCountIgnoresPool ==
    /\ spc = "count"
    /\ LET n == OptimumWorkers IN
         IF n > 0
           THEN tospawn' = n /\ spc' = "spawn"
           ELSE tospawn' = 0 /\ spc' = "idle"
    /\ pool' = 0
    /\ UNCHANGED <<cfgvars, mgrvars, work_queue, threads, shutdown, futvars,
                   wvars, t, raised, management_lock, sdvars, histvars>>

\* lines 120-123: the property is read a second time
AdjustCount ==
    /\ spc = "count"
    /\ LET n == OptimumWorkers - pool IN
         IF n > 0
           THEN tospawn' = n /\ spc' = "spawn"
           ELSE tospawn' = 0 /\ spc' = "idle"
    /\ pool' = 0
    /\ UNCHANGED <<cfgvars, mgrvars, work_queue, threads, shutdown, futvars,
                   wvars, t, raised, management_lock, sdvars, histvars>>

\* lines 109-111: the thread is created and started with maximum =
\* self.timeout; it runs line 22 and the loop head up to its first queue wait
SpawnStart ==
    /\ spc = "spawn"
    /\ FreeIds # {}
    /\ LET w == CHOOSE x \in FreeIds : \A y \in FreeIds : x <= y IN
         /\ t' = w
         /\ wpc' = [wpc EXCEPT ![w] = LoopPc(timeout + 1)]
         /\ i' = [i EXCEPT ![w] = LoopI(timeout + 1)]
    /\ spc' = "register"
    /\ UNCHANGED <<cfgvars, mgrvars, work_queue, threads, shutdown, futvars,
                   work, pool, tospawn, raised, management_lock, sdvars,
                   histvars>>

\* line 113: with self._management_lock (nobody else ever takes it)
SpawnAcquire ==
    /\ spc = "register"
    /\ ~management_lock
    /\ management_lock' = TRUE
    /\ spc' = "locked"
    /\ UNCHANGED <<cfgvars, mgrvars, work_queue, threads, shutdown, futvars,
                   wvars, pool, tospawn, t, raised, sdvars, histvars>>

\* line 114 and the end of the with block, then the next round of line 123
\* or the return of submit
SpawnRegister ==
    /\ spc = "locked"
    /\ threads' = threads \cup {t}
    /\ management_lock' = FALSE
    /\ t' = 0
    /\ tospawn' = tospawn - 1
    /\ spc' = IF tospawn - 1 > 0 THEN "spawn" ELSE "idle"
    /\ UNCHANGED <<cfgvars, mgrvars, work_queue, shutdown, futvars, wvars,
                   pool, raised, sdvars, histvars>>

\* ShutdownBegin without _shutdown_lock: it may run while a submit is under way
ShutdownBeginNoLock(wait) ==
    /\ executor
    /\ sdpc \in {"idle", "returned"}
    /\ sdpc = "returned" => transport = "stopped"
    /\ sdcalls < MaxShutdownCalls
    /\ shutdown' = TRUE
    /\ work_queue' = PutSentinels(work_queue, Cardinality(threads))
    /\ sdwait' = wait
    /\ sdcalls' = sdcalls + 1
    /\ sdpc' = IF wait THEN "snapshot" ELSE "returned"
    /\ UNCHANGED <<cfgvars, mgrvars, threads, futvars, wvars, subvars,
                   joining, histvars>>

\* ShutdownBegin that puts one sentinel per worker the pool may have
\* (_max_workers) instead of one per member of _threads
ShutdownBeginPerMaxWorkers(wait) ==
    /\ executor
    /\ spc = "idle"
    /\ sdpc \in {"idle", "returned"}
    /\ sdpc = "returned" => transport = "stopped"
    /\ sdcalls < MaxShutdownCalls
    /\ shutdown' = TRUE
    /\ work_queue' = PutSentinels(work_queue, max_workers)
    /\ sdwait' = wait
    /\ sdcalls' = sdcalls + 1
    /\ sdpc' = IF wait THEN "snapshot" ELSE "returned"
    /\ UNCHANGED <<cfgvars, mgrvars, threads, futvars, wvars, subvars,
                   joining, histvars>>

\* ShutdownBegin that puts the sentinels and leaves the flag as it is
ShutdownBeginNoFlag(wait) ==
    /\ executor
    /\ spc = "idle"
    /\ sdpc \in {"idle", "returned"}
    /\ sdpc = "returned" => transport = "stopped"
    /\ sdcalls < MaxShutdownCalls
    /\ work_queue' = PutSentinels(work_queue, Cardinality(threads))
    /\ sdwait' = wait
    /\ sdcalls' = sdcalls + 1
    /\ sdpc' = IF wait THEN "snapshot" ELSE "returned"
    /\ UNCHANGED <<cfgvars, mgrvars, threads, shutdown, futvars, wvars,
                   subvars, joining, histvars>>

\* line 169 (or a later call, as _atexit makes, lines 105-106): lines 95-99
\* under _shutdown_lock (free exactly when no submit is under way), and the
\* test of line 101.  The calls come one after the other.
ShutdownBegin(wait) ==
    /\ executor
    /\ spc = "idle"
    /\ sdpc \in {"idle", "returned"}
    /\ sdpc = "returned" => transport = "stopped"
    /\ sdcalls < MaxShutdownCalls
    /\ shutdown' = TRUE
    /\ work_queue' = PutSentinels(work_queue, Cardinality(threads))
    /\ sdwait' = wait
    /\ sdcalls' = sdcalls + 1
    /\ sdpc' = IF wait THEN "snapshot" ELSE "returned"
    /\ UNCHANGED <<cfgvars, mgrvars, threads, futvars, wvars, subvars,
                   joining, histvars>>

\* line 102: list(self._threads)
ShutdownSnapshot ==
    /\ sdpc = "snapshot"
    /\ joining' = threads
    /\ sdpc' = "join"
    /\ UNCHANGED <<cfgvars, mgrvars, work_queue, threads, shutdown, futvars, wvars,
                   subvars, sdwait, sdcalls, histvars>>

\* ShutdownJoin with a join() that returns at once, whether or not the
\* thread has ended
ShutdownJoinNoWait(w) ==
    /\ sdpc = "join"
    /\ w \in joining
    /\ joining' = joining \ {w}
    /\ UNCHANGED <<cfgvars, mgrvars, work_queue, threads, shutdown, futvars,
                   wvars, subvars, sdpc, sdwait, sdcalls, histvars>>

\* line 103: thread.join() returns once that thread has ended
ShutdownJoin(w) ==
    /\ sdpc = "join"
    /\ w \in joining
    /\ wpc[w] = "dead"
    /\ joining' = joining \ {w}
    /\ UNCHANGED <<cfgvars, mgrvars, work_queue, threads, shutdown, futvars, wvars,
                   subvars, sdpc, sdwait, sdcalls, histvars>>

\* the loop of lines 102-103 is over: shutdown returns
ShutdownReturn ==
    /\ sdpc = "join"
    /\ joining = {}
    /\ sdpc' = "returned"
    /\ UNCHANGED <<cfgvars, mgrvars, work_queue, threads, shutdown, futvars, wvars,
                   subvars, sdwait, joining, sdcalls, histvars>>

\* ---- the client's future ----------------------------------------------------
\* concurrent.futures.Future.cancel: only a pending future is cancelled
Cancel(it) ==
    /\ state[it] = "PENDING"
    /\ state' = [state EXCEPT ![it] = "CANCELLED"]
    /\ UNCHANGED <<cfgvars, mgrvars, work_queue, threads, shutdown, outcome, fn,
                   wvars, subvars, sdvars, histvars>>

\* ---- specifications ---------------------------------------------------------
WorkerStep(w) ==
    \/ WorkerGet(w)
    \/ RunStart(w)
    \/ RunFinish(w)
    \/ WorkerExit(w)

SubmitStep ==
    \/ AdjustReadPool
    \/ AdjustTest
    \/ AdjustCount
    \/ SpawnStart
    \/ SpawnAcquire
    \/ SpawnRegister

ShutdownStep ==
    \/ ShutdownSnapshot
    \/ (\E w \in ThreadIds : ShutdownJoin(w))
    \/ ShutdownReturn

\* what a submitted callable may do
Callables == {"returns", "raises"}

\* the steps of the program with the submitted callables drawn from B
NextWith(B) ==
    \/ Startup
    \/ DeliverUninitialized
    \/ TransportShutdown
    \/ \E b \in B : SubmitAccept(b)
    \/ SubmitRaise
    \/ SubmitStep
    \/ \E wait \in BOOLEAN : ShutdownBegin(wait)
    \/ ShutdownStep
    \/ \E it \in Items : Cancel(it)
    \/ \E w \in ThreadIds : WorkerStep(w)

Next == NextWith(Callables)

Spec == Init /\ [][Next]_vars

\* Threads are scheduled fairly and every callable terminates; what the
\* clients call, and when, is up to them.
Fairness ==
    /\ \A w \in ThreadIds : WF_vars(WorkerStep(w))
    /\ WF_vars(SubmitStep)
    /\ WF_vars(ShutdownStep)

\* Whether a callable returns or raises changes only what its future
\* carries, never which step a thread takes next: the behaviours checked for
\* progress are those whose callables return.
FairNext == NextWith({"returns"})

FairSpec == Init /\ [][FairNext]_vars /\ Fairness

\* ---- claims -------------------------------------------------------------------

\* C1: every work item accepted by submit eventually has its future in a
\* terminal state (result, exception or cancelled), under fair scheduling
\* and terminating callables.
C1_AcceptedEventuallyTerminal ==
    \A it \in Items : Accepted(it) ~> Terminal(it)

\* C2: every work item is dequeued by at most one worker, its callable is
\* invoked at most once, and its future enters a terminal state at most
\* once and keeps it.
C2_AtMostOnce ==
    /\ [](\A it \in Items : dequeued[it] <= 1 /\ invoked[it] <= 1)
    /\ [][\A it \in Items :
            TerminalKind(it) # "none" => TerminalKind(it)' = TerminalKind(it)]_vars

\* an item ran to its end and another, cancelled one was dequeued and skipped
C2_Witness ==
    \E a, b \in Items :
        /\ state[a] = "FINISHED" /\ dequeued[a] = 1 /\ invoked[a] = 1
        /\ state[b] = "CANCELLED_AND_NOTIFIED" /\ dequeued[b] = 1

\* a call shutdown(wait=True) has returned
ShutdownWaitReturned == sdpc = "returned" /\ sdwait

\* C3: after shutdown(wait=True) returns the live-worker set is empty and no
\* worker thread is running.
C3_ShutdownLeavesNoWorker ==
    ShutdownWaitReturned => threads = {} /\ \A w \in ThreadIds : ~Alive(w)

\* C4: every work item accepted before shutdown has a terminal future by
\* the time shutdown(wait=True) returns.
C4_NoWorkLostOnShutdown ==
    ShutdownWaitReturned => \A it \in Items : Accepted(it) => Terminal(it)

\* C5: under fair scheduling and terminating callables a call
\* shutdown(wait=True) eventually returns, and every worker live when the
\* shutdown flag is set eventually exits.
\* (once the flag is set a state is reached where no worker is live and no
\* shutdown call is still on its way to its return)
C5_ShutdownReturns ==
    shutdown ~> /\ \A w \in ThreadIds : ~Alive(w)
                /\ sdpc \notin {"snapshot", "join"}

\* shutdown(wait=True) is joining a live worker while work items are queued
C5_Witness ==
    /\ sdpc = "join"
    /\ \E w \in joining : Alive(w)
    /\ \E k \in 1..Len(work_queue) : work_queue[k] # Sentinel

\* the work items (not the sentinels) in a queue
ItemsIn(q) == {q[k] : k \in 1..Len(q)} \ {Sentinel}

\* C6: once the shutdown flag is set no submit is accepted or under way, no
\* work item is added to the queue, no worker is spawned and the live-worker
\* set only shrinks.
C6_NothingAcceptedAfterShutdown ==
    /\ [](shutdown => spc = "idle" /\ ~ENABLED (\E b \in Callables : SubmitAccept(b)))
    /\ [][shutdown =>
            /\ shutdown'
            /\ threads' \subseteq threads
            /\ ItemsIn(work_queue') \subseteq ItemsIn(work_queue)
            /\ \A it \in Items : Accepted(it)' <=> Accepted(it)
            /\ \A w \in ThreadIds : Alive(w)' => Alive(w)]_vars

\* a submit has raised after shutdown, with workers and queued work around
C6_Witness ==
    /\ shutdown
    /\ raised
    /\ threads # {}
    /\ ItemsIn(work_queue) # {}

\* C7: the live-worker set never holds more than the configured maximum
\* of workers.
C7_PoolWithinMaximum == Cardinality(threads) <= max_workers

\* the pool is full, and a worker has exited before
C7_Witness ==
    /\ Cardinality(threads) = max_workers
    /\ \E w \in ThreadIds : wpc[w] = "dead"
    /\ \E w \in threads : Alive(w)

\* the scenario of C8: submits only, from the initial executor, all returned;
\* every callable that was started is still blocked
ScalingScenario ==
    /\ spc = "idle"
    /\ ~shutdown
    /\ \A it \in Items : state[it] \in {"NONE", "PENDING", "RUNNING"}

NumAccepted == Cardinality({it \in Items : Accepted(it)})

\* C8 as stated: after divisor * k submits of blocking callables the
\* live-worker set holds at least min(max_workers, k) workers, however the
\* workers' dequeues interleave with the submits.
C8_ScalingByItemsSubmitted ==
    \A k \in 1..MaxItems :
        ScalingScenario /\ NumAccepted = divisor * k
            => Cardinality(threads) >= Min(max_workers, k)

\* C8 amended: the live-worker set holds at least
\* min(max_workers, ceil(q / divisor)) workers, q the number of those items
\* still in the queue; that is min(max_workers, k) when none was dequeued.
C8_ScalingByQueueDepth ==
    \A k \in 1..MaxItems :
        ScalingScenario /\ NumAccepted = divisor * k
            => /\ Cardinality(threads) >= Min(max_workers, Ceil(qsize, divisor))
               /\ qsize = NumAccepted => Cardinality(threads) >= Min(max_workers, k)

\* two items submitted with divisor 1: the first worker took one before the
\* second submit, so one worker serves both
C8_Witness ==
    /\ ScalingScenario
    /\ divisor = 1 /\ max_workers = 2 /\ NumAccepted = 2
    /\ qsize = 1
    /\ Cardinality(threads) = 1
    /\ \E w \in threads : wpc[w] = "call"

\* worker w is leaving WorkItem.run's first line for a cancelled future
SkipsCancelled(w) ==
    wpc[w] = "run" /\ state[work[w]] = "CANCELLED" /\ wpc'[w] # "run"

\* C9 as stated: the callable of a future cancelled before its item is run
\* is never invoked; the worker returns from run() and goes on to its next
\* queue wait.
C9_CancelledSkippedThenNextWait ==
    /\ [](\A it \in Items : TerminalKind(it) = "cancelled" => invoked[it] = 0)
    /\ [][\A w \in ThreadIds :
            SkipsCancelled(w) => invoked' = invoked /\ wpc'[w] = "get"]_vars

\* C9 amended: ... and goes on to its next queue wait unless its iteration
\* budget is used up, in which case it exits by exhaustion.
C9_CancelledSkipped ==
    /\ [](\A it \in Items : TerminalKind(it) = "cancelled" => invoked[it] = 0)
    /\ [][\A w \in ThreadIds :
            SkipsCancelled(w) =>
                /\ invoked' = invoked
                /\ wpc'[w] = IF fractional \/ i[w] # 0 THEN "get" ELSE "exit"]_vars

\* the single worker skipped a cancelled item on its first iteration and
\* is in its second queue wait
C9_Witness ==
    /\ max_workers = 1 /\ timeout = 1 /\ ~fractional
    /\ \E it \in Items : state[it] = "CANCELLED_AND_NOTIFIED" /\ dequeued[it] = 1
    /\ \A it \in Items : invoked[it] = 0
    /\ \E w \in threads : wpc[w] = "get" /\ i[w] = 0

\* worker w is leaving the call of a callable that raises
CallRaises(w) ==
    wpc[w] = "call" /\ fn[work[w]] = "raises" /\ wpc'[w] # "call"

\* C10: when a callable raises, the future ends in the exception state and
\* never in the result state; the worker stays in the live-worker set and
\* goes on to its next queue wait, unless its iteration budget is used up.
C10_RaiseBecomesException ==
    /\ [](\A it \in Items : fn[it] = "raises" => outcome[it] # "result")
    /\ [][\A w \in ThreadIds :
            CallRaises(w) =>
                /\ state'[work[w]] = "FINISHED"
                /\ outcome'[work[w]] = "exception"
                /\ threads' = threads
                /\ wpc'[w] = IF fractional \/ i[w] # 0 THEN "get" ELSE "exit"]_vars
    /\ [][\A it \in Items :
            outcome[it] = "exception" => outcome'[it] = "exception"]_vars

\* the single worker ran a raising callable on its first iteration, is
\* still registered and is in its second queue wait
C10_Witness ==
    /\ max_workers = 1 /\ timeout = 1 /\ ~fractional
    /\ \E it \in Items : fn[it] = "raises" /\ outcome[it] = "exception"
                         /\ state[it] = "FINISHED"
    /\ \E w \in threads : wpc[w] = "get" /\ i[w] = 0

\* C11: if shutdown is never called then, no further submit being made from
\* some point on, under fair scheduling and terminating callables every
\* worker eventually exits and the live-worker set becomes empty and stays
\* empty.
C11_PoolShrinksToZero ==
    ([]~shutdown) => <>[](threads = {} /\ \A w \in ThreadIds : ~Alive(w))

\* C14: work items are handed to workers in the order in which submit
\* enqueued them: b is never dequeued before an item a enqueued before it.
C14_DequeuedInSubmissionOrder ==
    \A a, b \in Items : a < b /\ dequeued[b] >= 1 => dequeued[a] >= 1

\* both items were handed out, to two workers, and the later one is
\* finished while the earlier one is still running
C14_Witness ==
    /\ dequeued[1] = 1 /\ dequeued[2] = 1
    /\ state[1] = "RUNNING" /\ state[2] = "FINISHED"

\* C15: every member of the live-worker set is a thread that has not
\* terminated.
C15_NoDeadThreadRegistered ==
    \A w \in threads : wpc[w] # "dead"

\* a call of executor.shutdown that finds the flag already set
SecondShutdownCall == shutdown /\ sdcalls' = sdcalls + 1

\* C12: a second call of shutdown (any wait value) leaves the flag set,
\* starts no worker and changes no worker, touches no future, and adds to
\* the queue exactly one sentinel per member of the live-worker set and
\* nothing else.
C12_SecondShutdownOnlySentinels ==
    [][SecondShutdownCall =>
         /\ shutdown'
         /\ UNCHANGED <<threads, wvars, futvars, raised>>
         /\ Len(work_queue') = Len(work_queue) + Cardinality(threads)
         /\ \A k \in 1..Len(work_queue') :
              IF k <= Len(work_queue)
                THEN work_queue'[k] = work_queue[k]
                ELSE work_queue'[k] = Sentinel]_vars

\* a second call has been made while the set still had a member: its
\* sentinel is in the queue
C12_Witness ==
    /\ sdcalls = 2
    /\ threads # {}
    /\ work_queue # <<>>
    /\ work_queue[Len(work_queue)] = Sentinel

\* the manager's states: uninitialized, running, stopped
Uninitialized == ~executor
Running == executor /\ ~shutdown
Stopped == executor /\ shutdown

\* a deliver call that fails / that is accepted
DeliverFails == DeliverUninitialized \/ SubmitRaise
DeliverAccepted == \E b \in Callables : SubmitAccept(b)

\* C13: before startup and after shutdown a deliver call can only fail, and
\* it leaves the queue and the futures alone; in the running state deliver
\* cannot fail, and an accepted deliver creates one pending future and
\* appends exactly its one work item to the queue.
C13_DeliverOnlyWhenRunning ==
    /\ [](Uninitialized \/ Stopped => ~ENABLED DeliverAccepted)
    /\ [](Running => ~ENABLED DeliverFails)
    /\ [][DeliverFails => raised' /\ UNCHANGED <<work_queue, futvars>>]_vars
    /\ [][DeliverAccepted =>
            /\ Running
            /\ ~raised'
            /\ work_queue' = Append(work_queue, NextItem)
            /\ state' = [state EXCEPT ![NextItem] = "PENDING"]]_vars

\* deliver has failed after the shutdown, with an item accepted before it
\* still in the queue
C13_Witness ==
    /\ Stopped
    /\ raised
    /\ ItemsIn(work_queue) # {}

\* the reads of the live-worker set that a decision rests on: line 117
\* (scaling), lines 98 and 102 (shutdown)
ReadsThreads ==
    \/ spc = "adjust" /\ spc' = "test"
    \/ sdcalls' = sdcalls + 1
    \/ sdpc = "snapshot" /\ sdpc' = "join"

\* C16: every step that changes the live-worker set, and every step that
\* reads it for a scaling or shutdown decision, is taken with the
\* management lock held.
C16_SetOnlyUnderManagementLock ==
    [][(threads' # threads \/ ReadsThreads) => management_lock]_vars

\* the workers a scaling adjustment is to spawn, from the count it read at
\* line 117 and the optimum as the queue's depth gives it now
ToSpawn == IF pool < OptimumWorkers THEN OptimumWorkers - pool ELSE 0

\* C17: the adjustment that follows the enqueue of a submit decides on the
\* optimum computed from the queue's depth at that time: it spawns nothing
\* when the count it read is not below the optimum, and otherwise exactly
\* optimum - count workers, one registered per round until none is left to
\* spawn; no step of it takes a thread out of the live-worker set.
C17_SpawnsOptimumMinusCurrent ==
    [][/\ (spc = "test" /\ spc' = "idle") => ToSpawn = 0
       /\ (spc = "test" /\ spc' = "count") => ToSpawn > 0
       /\ (spc = "count" /\ spc' # "count") =>
            /\ tospawn' = ToSpawn
            /\ spc' = IF ToSpawn > 0 THEN "spawn" ELSE "idle"
       /\ (spc = "spawn" /\ spc' # "spawn") =>
            /\ tospawn > 0 /\ tospawn' = tospawn
            /\ Cardinality({w \in ThreadIds : Alive(w)' /\ ~Alive(w)}) = 1
       /\ (spc = "locked" /\ spc' # "locked") =>
            /\ threads' = threads \cup {t}
            /\ tospawn' = tospawn - 1
            /\ spc' = IF tospawn' > 0 THEN "spawn" ELSE "idle"
       /\ (spc' # spc) => threads \subseteq threads'
       /\ (spc \notin {"spawn"}) =>
            \A w \in ThreadIds : Alive(w)' => Alive(w)]_vars

\* with one worker registered and two entries queued the adjustment has
\* decided to spawn the one worker that is missing
C17_Witness ==
    /\ spc = "spawn"
    /\ tospawn = 1
    /\ Cardinality(threads) = 1
    /\ max_workers = 2
    /\ qsize = 2

\* worker w goes into a queue wait (line 29) with this step
EntersGet(w) ==
    /\ wpc'[w] = "get"
    /\ \/ wpc[w] # "get"
       \/ work_queue # <<>> /\ Head(work_queue) = Sentinel /\ ~shutdown

\* worker w comes back to the loop head (line 25) from a work item
BackAtLoopHead(w) == wpc[w] \in {"run", "call"} /\ wpc'[w] \in {"get", "exit"}

TransportStops == transport = "running" /\ transport' = "stopped"

\* C19: in Manager.shutdown(wait=True) the transport pool is shut down in
\* a state where no worker thread is left running, and once the shutdown
\* flag is set no worker thread is started any more: no work item runs
\* after the transport pool's shutdown has begun.
C19_TransportStopsAfterWorkers ==
    [][/\ (TransportStops /\ sdwait) => \A w \in ThreadIds : ~Alive(w)
       /\ shutdown => \A w \in ThreadIds : Alive(w)' => Alive(w)
       /\ (\A w \in ThreadIds : ~Alive(w)) => invoked' = invoked]_vars

\* shutdown(wait=True) was called with a worker running an item; the
\* transport pool is stopped now, the item done and every worker gone
C19_Witness ==
    /\ transport = "stopped"
    /\ sdwait /\ sdcalls = 1
    /\ \E it \in Items : state[it] = "FINISHED"
    /\ ItemsIn(work_queue) # {}
    /\ \A w \in ThreadIds : ~Alive(w)

\* shutdown(wait=False): the transport pool is stopped while a worker is
\* inside a work item's callable
C19_NoWaitUnordered ==
    /\ transport = "stopped"
    /\ ~sdwait /\ sdcalls = 1
    /\ \E w \in ThreadIds : wpc[w] = "call"

\* a step that takes a sentinel off the head of the queue
SentinelDequeued ==
    /\ work_queue # <<>>
    /\ Head(work_queue) = Sentinel
    /\ work_queue' = Tail(work_queue)

\* C20: a sentinel is in the queue only while the shutdown flag is set; the
\* worker that dequeues one leaves its loop with that step (it never goes
\* back to the queue wait), and no worker dequeues more than one.
C20_SentinelOnlyUnderShutdown ==
    /\ [](Sentinel \in {work_queue[k] : k \in 1..Len(work_queue)} => shutdown)
    /\ [](\A w \in ThreadIds :
            consumed[w] <= 1 /\ (consumed[w] = 1 => wpc[w] = "exit"))
    /\ [][SentinelDequeued =>
            \E w \in ThreadIds :
               /\ wpc[w] = "get"
               /\ wpc' = [wpc EXCEPT ![w] = "exit"]
               /\ consumed' = [consumed EXCEPT ![w] = 1]]_vars

\* a worker has dequeued a sentinel and left its loop while another
\* sentinel is still queued
C20_Witness ==
    /\ \E w \in ThreadIds : consumed[w] = 1 /\ wpc[w] = "exit"
    /\ \E k \in 1..Len(work_queue) : work_queue[k] = Sentinel

====
